---- MODULE Spec2Model ----
(***************************************************************************)
(* Categories and Query Libraries (postgresql.lib): the ILF section-marker *)
(* parser, the symbol types and execution methods, the Binding of a        *)
(* Library to a connection and the Category that binds several Libraries.  *)
(*                                                                         *)
(* The behaviour is taken from src/postgresql/documentation/lib.py; the    *)
(* parts that chapter does not describe (the first-use gate, the Category  *)
(* failure policy, the error taxonomy) follow the design specification.    *)
(***************************************************************************)
EXTENDS Integers, Sequences, FiniteSets, TLC

\* ---------------------------------------------------------------- bounds
NCallers == 2
MaxCalls == 3
MaxRows == 3
MaxChunk == 2
MaxTokens == 5

\* ------------------------------------------------------- ILF section markers
Colon == ":"
DefaultType == "default"
DefaultMethod == "default"
FormatError == [error |-> "FormatError"]

Types == {"preload", "const", "proc"}
Methods == {"rows", "chunks", "first", "column", "declare", "load_rows", "load_chunks"}

\* The components of a marker's contents: the runs of tokens between colons.
RECURSIVE SplitColon(_)
SplitColon(toks) ==
    IF toks = <<>> THEN << <<>> >>
    ELSE LET rest == SplitColon(Tail(toks))
         IN  IF Head(toks) = Colon
             THEN << <<>> >> \o rest
             ELSE << <<Head(toks)>> \o Head(rest) >> \o Tail(rest)

\* Mutant of Component: an empty component is taken as it stands.
ComponentKeepEmpty(parts, k, dflt) ==
    IF Len(parts) < k THEN dflt
    ELSE IF parts[k] = <<>> THEN "" ELSE parts[k][1]

\* The k-th component, or the default when it is omitted or empty.
Component(parts, k, dflt) ==
    IF Len(parts) < k \/ parts[k] = <<>> THEN dflt ELSE parts[k][1]

\* [symbol:type:method]: the name is required, type and method are optional.
ParseMarker(toks) ==
    LET parts == SplitColon(toks)
    IN  IF \/ Len(parts) > 3
           \/ Len(parts[1]) # 1
           \/ \E k \in 1..Len(parts) : Len(parts[k]) > 1
        THEN FormatError
        ELSE [name   |-> parts[1][1],
              type   |-> Component(parts, 2, DefaultType),
              method |-> Component(parts, 3, DefaultMethod)]

\* ------------------------------------------------------------ the libraries
LibIds == {1, 2}

LibName(l) == IF l = 1 THEN "A" ELSE "B"

\* The section markers of the two ILF sources, in declaration order.
LibSource(l) ==
    IF l = 1
    THEN << <<"get_user_info">>,
            <<"user_type_ids", ":", "const">>,
            <<"remove_user", ":", "proc">> >>
    ELSE << <<"get_one", ":", "preload", ":", "first">>,
            <<"get_some_rows", ":", ":", "rows">> >>

Library(l) == [i \in 1..Len(LibSource(l)) |-> ParseMarker(LibSource(l)[i])]

Syms == UNION {{<<l, i>> : i \in 1..Len(LibSource(l))} : l \in LibIds}

SymOf(s) == Library(s[1])[s[2]]

ConstSyms == {s \in Syms : SymOf(s).type = "const"}

\* ------------------------------------------------------------------- state
VARIABLES
    cat,        \* the Category: [state, override, names], library -> attribute name
    apply,      \* Category.apply's position: [pc, lib, sym]
    attrs,      \* the connection's attributes: attribute name -> library or 0
    accessor,   \* the Bindings' resolved accessors, per symbol
    prepLog,    \* the preparation requests issued to the connection, in order
    ready,      \* the handles (indexes of prepLog) whose preparation completed
    execLog,    \* the executions issued: [sym, h, nparams]
    execCount,  \* the number of executions of each const symbol's statement
    lock,       \* the first-use gate of each symbol: the caller holding it or 0
    pc,         \* each caller's position
    tgt,        \* the symbol each caller is invoking
    hnd,        \* the statement handle each caller holds
    result,     \* what each caller's last invocation returned
    errs,       \* the symbols whose execution has failed at least once
    reads,      \* the number of reads of const values
    calls,      \* the number of invocations started
    arg,        \* the input handed to the parser or to an execution method
    out,        \* what the parser or the execution method produced
    done        \* whether out has been produced

bound == <<cat, apply, attrs, accessor, prepLog, ready, execLog, execCount,
           lock, pc, tgt, hnd, result, errs, reads, calls>>
io == <<arg, out, done>>
vars == <<bound, io>>

Callers == 1..NCallers
AttrNames == {"A", "B", "b2"}
NoAlias == "none"
NoSym == <<0, 0>>

Unbound == [kind |-> "unbound", h |-> 0, v |-> "none"]
Placeholder == [kind |-> "placeholder", h |-> 0, v |-> "none"]

\* Mutant of HoldStatement: the prepared statement is not kept.
DropStatement(h) == Placeholder

\* <default>: the Bound Symbol holds onto the PreparedStatement object.
HoldStatement(h) == [kind |-> "handle", h |-> h, v |-> "none"]

\* Mutant of Reusable: the existing prepared statement is never referred to.
NeverReusable(acc) == FALSE

\* When the symbol is used again, it refers to the existing prepared statement.
Reusable(acc) == acc.kind = "handle"

\* Mutant of ConstAccessor: the statement object is kept with the results.
ConstKeepStatement(h, value) == [kind |-> "value", h |-> h, v |-> value]

\* const: the results are set to the Binding, the statement object is discarded.
ConstAccessor(h, value) == [kind |-> "value", h |-> 0, v |-> value]

\* Mutant of ResolveAtBind: proc symbols are left to their first use.
ResolveAtBindNoProc(type) == type \in {"preload", "const"}

\* preload, const and proc symbols are resolved when the Library is bound.
ResolveAtBind(type) == type \in {"preload", "const", "proc"}

\* Mutant of AttrName: the keyword name is ignored.
AttrNameNoAlias(l, override) == LibName(l)

\* The access point of a Binding: the keyword given, else the library's name.
AttrName(l, override) ==
    IF override[l] # NoAlias THEN override[l] ELSE LibName(l)

\* Mutant of AttrsOnFailure: the Bindings made so far stay attached.
AttrsKeepBound(names, l) ==
    [n \in AttrNames |->
        IF \E k \in LibIds : k < l /\ names[k] = n
        THEN CHOOSE k \in LibIds : k < l /\ names[k] = n
        ELSE 0]

\* A failed apply leaves none of the Category's names on the connection.
AttrsOnFailure(names, l) == [n \in AttrNames |-> 0]

\* A completed apply attaches one Binding per Library under its name.
AttrsAll(names) ==
    [n \in AttrNames |->
        IF \E k \in LibIds : names[k] = n
        THEN CHOOSE k \in LibIds : names[k] = n
        ELSE 0]

\* Mutant of AfterInvocationError: the failing symbol's handle is dropped.
InvalidateOnError(acc) == Placeholder

\* An execution failure leaves the symbol's accessor as it was.
AfterInvocationError(acc) == acc

InitBound ==
    /\ cat = [state |-> "new", override |-> [l \in LibIds |-> NoAlias],
              names |-> [l \in LibIds |-> NoAlias]]
    /\ apply = [pc |-> "idle", lib |-> 0, sym |-> 0]
    /\ attrs = [n \in AttrNames |-> 0]
    /\ accessor = [s \in Syms |-> Unbound]
    /\ prepLog = <<>>
    /\ ready = {}
    /\ execLog = {}
    /\ execCount = [s \in ConstSyms |-> 0]
    /\ lock = [s \in Syms |-> 0]
    /\ pc = [c \in Callers |-> "idle"]
    /\ tgt = [c \in Callers |-> NoSym]
    /\ hnd = [c \in Callers |-> 0]
    /\ result = [c \in Callers |-> "none"]
    /\ errs = {}
    /\ reads = 0
    /\ calls = 0

Init ==
    /\ InitBound
    /\ arg = <<>>
    /\ out = <<>>
    /\ done = FALSE

\* --------------------------------------------------------------- Category
\* Category(lib1, libname = lib2): the keyword names the last Library may be
\* given: none, the first library's name, a name of its own.
Overrides ==
    {[l \in LibIds |-> IF l = 2 THEN b ELSE NoAlias] : b \in {NoAlias, "A", "b2"}}

\* Category(lib1, lib2, name = libN): duplicate attribute names are refused.
CategoryNew ==
    /\ cat.state = "new"
    /\ \E override \in Overrides :
         LET names == [l \in LibIds |-> AttrName(l, override)]
         IN  cat' = [state |-> IF \E k, l \in LibIds : k # l /\ names[k] = names[l]
                               THEN "DefinitionError" ELSE "defined",
                     override |-> override,
                     names |-> names]
    /\ UNCHANGED <<apply, attrs, accessor, prepLog, ready, execLog, execCount,
                   lock, pc, tgt, hnd, result, errs, reads, calls>>
    /\ UNCHANGED io

\* The connection is handed to the Category: binding starts with the first
\* Library's first symbol.
ApplyStart ==
    /\ cat.state = "defined"
    /\ apply.pc = "idle"
    /\ apply' = [pc |-> "binding", lib |-> 1, sym |-> 1]
    /\ UNCHANGED <<cat, attrs, accessor, prepLog, ready, execLog, execCount,
                   lock, pc, tgt, hnd, result, errs, reads, calls>>
    /\ UNCHANGED io

\* The position after symbol <<l, i>>: the next symbol, the next Library, or
\* the end of the bind order.
Advance(l, i) ==
    IF i < Len(LibSource(l)) THEN [pc |-> "binding", lib |-> l, sym |-> i + 1]
    ELSE IF l + 1 \in LibIds THEN [pc |-> "binding", lib |-> l + 1, sym |-> 1]
    ELSE [pc |-> "attach", lib |-> 0, sym |-> 0]

\* What the connection can answer to the bind-time resolution of a symbol.
BindOutcomes(type) ==
    CASE type = "preload" -> {"ok", "prepare_failed"}
      [] type = "const"   -> {"ok", "prepare_failed", "execute_failed"}
      [] type = "proc"    -> {"ok", "signature_failed", "prepare_failed"}
      [] OTHER            -> {"ok"}

\* bind: one symbol of the Library, in declaration order.
BindSymbol ==
    /\ apply.pc = "binding"
    /\ LET l == apply.lib
           i == apply.sym
           s == <<l, i>>
           type == SymOf(s).type
           h == Len(prepLog) + 1
       IN  IF ~ResolveAtBind(type)
           THEN /\ accessor' = [accessor EXCEPT ![s] = Placeholder]
                /\ apply' = Advance(l, i)
                /\ UNCHANGED <<attrs, prepLog, ready, execLog, execCount>>
           ELSE \E res \in BindOutcomes(type) :
                /\ prepLog' = IF res = "signature_failed" THEN prepLog
                              ELSE Append(prepLog, s)
                /\ ready' = IF res \in {"ok", "execute_failed"}
                            THEN ready \cup {h} ELSE ready
                /\ IF type = "const" /\ res \in {"ok", "execute_failed"}
                   THEN /\ execLog' = execLog \cup {[sym |-> s, h |-> h, nparams |-> 0]}
                        /\ execCount' = [execCount EXCEPT ![s] = @ + 1]
                   ELSE UNCHANGED <<execLog, execCount>>
                /\ IF res = "ok"
                   THEN /\ accessor' = [accessor EXCEPT ![s] =
                              IF type = "const" THEN ConstAccessor(h, "rows")
                              ELSE HoldStatement(h)]
                        /\ apply' = Advance(l, i)
                        /\ UNCHANGED attrs
                   ELSE /\ apply' = [pc |-> "ResolutionError", lib |-> l, sym |-> i]
                        /\ attrs' = AttrsOnFailure(cat.names, l)
                        /\ UNCHANGED accessor
    /\ UNCHANGED <<cat, lock, pc, tgt, hnd, result, errs, reads, calls>>
    /\ UNCHANGED io

\* Every Library is bound: the Bindings are set on the connection.
ApplyAttach ==
    /\ apply.pc = "attach"
    /\ attrs' = AttrsAll(cat.names)
    /\ apply' = [pc |-> "done", lib |-> 0, sym |-> 0]
    /\ UNCHANGED <<cat, accessor, prepLog, ready, execLog, execCount,
                   lock, pc, tgt, hnd, result, errs, reads, calls>>
    /\ UNCHANGED io

\* ---------------------------------------------------------------- callers
Attached(l) == \E n \in AttrNames : attrs[n] = l

\* db.lib.user_type_ids: a const symbol is a property holding the results.
ReadConst(c, s) ==
    /\ pc[c] = "idle"
    /\ Attached(s[1])
    /\ accessor[s].kind = "value"
    /\ calls < MaxCalls
    /\ calls' = calls + 1
    /\ reads' = reads + 1
    /\ result' = [result EXCEPT ![c] = accessor[s].v]
    /\ UNCHANGED <<cat, apply, attrs, accessor, prepLog, ready, execLog,
                   execCount, lock, pc, tgt, hnd, errs>>
    /\ UNCHANGED io

\* B.symbol(param): the call of a Bound Symbol starts.
Invoke(c, s) ==
    /\ pc[c] = "idle"
    /\ Attached(s[1])
    /\ accessor[s].kind \in {"placeholder", "handle"}
    /\ calls < MaxCalls
    /\ calls' = calls + 1
    /\ pc' = [pc EXCEPT ![c] = "resolve"]
    /\ tgt' = [tgt EXCEPT ![c] = s]
    /\ UNCHANGED <<cat, apply, attrs, accessor, prepLog, ready, execLog,
                   execCount, lock, hnd, result, errs, reads>>
    /\ UNCHANGED io

\* The existing prepared statement is used; without one the caller goes to
\* the symbol's first-use gate.
Resolve(c) ==
    /\ pc[c] = "resolve"
    /\ IF Reusable(accessor[tgt[c]])
       THEN /\ pc' = [pc EXCEPT ![c] = "exec"]
            /\ hnd' = [hnd EXCEPT ![c] = accessor[tgt[c]].h]
       ELSE /\ pc' = [pc EXCEPT ![c] = "wait"]
            /\ UNCHANGED hnd
    /\ UNCHANGED <<cat, apply, attrs, accessor, prepLog, ready, execLog,
                   execCount, lock, tgt, result, errs, reads, calls>>
    /\ UNCHANGED io

\* The gate is entered by one caller at a time; the others wait.
Enter(c) ==
    /\ pc[c] = "wait"
    /\ lock[tgt[c]] = 0
    /\ lock' = [lock EXCEPT ![tgt[c]] = c]
    /\ pc' = [pc EXCEPT ![c] = "locked"]
    /\ UNCHANGED <<cat, apply, attrs, accessor, prepLog, ready, execLog,
                   execCount, tgt, hnd, result, errs, reads, calls>>
    /\ UNCHANGED io

\* Inside the gate: a handle published meanwhile is reused, otherwise the
\* preparation request is issued.
Prepare(c) ==
    /\ pc[c] = "locked"
    /\ IF Reusable(accessor[tgt[c]])
       THEN /\ pc' = [pc EXCEPT ![c] = "exec"]
            /\ hnd' = [hnd EXCEPT ![c] = accessor[tgt[c]].h]
            /\ lock' = [lock EXCEPT ![tgt[c]] = 0]
            /\ UNCHANGED prepLog
       ELSE /\ prepLog' = Append(prepLog, tgt[c])
            /\ hnd' = [hnd EXCEPT ![c] = Len(prepLog) + 1]
            /\ pc' = [pc EXCEPT ![c] = "preparing"]
            /\ UNCHANGED lock
    /\ UNCHANGED <<cat, apply, attrs, accessor, ready, execLog, execCount,
                   tgt, result, errs, reads, calls>>
    /\ UNCHANGED io

\* The preparation completes: the handle is published and the gate opened.
Publish(c) ==
    /\ pc[c] = "preparing"
    /\ ready' = ready \cup {hnd[c]}
    /\ accessor' = [accessor EXCEPT ![tgt[c]] = HoldStatement(hnd[c])]
    /\ lock' = [lock EXCEPT ![tgt[c]] = 0]
    /\ pc' = [pc EXCEPT ![c] = "exec"]
    /\ UNCHANGED <<cat, apply, attrs, prepLog, execLog, execCount,
                   tgt, hnd, result, errs, reads, calls>>
    /\ UNCHANGED io

\* The statement is executed on the caller's handle; the execution may fail.
\* The call returns to its caller either way.
Execute(c) ==
    /\ pc[c] = "exec"
    /\ execLog' = execLog \cup {[sym |-> tgt[c], h |-> hnd[c], nparams |-> 1]}
    /\ execCount' = IF tgt[c] \in ConstSyms
                    THEN [execCount EXCEPT ![tgt[c]] = @ + 1] ELSE execCount
    /\ pc' = [pc EXCEPT ![c] = "idle"]
    /\ tgt' = [tgt EXCEPT ![c] = NoSym]
    /\ hnd' = [hnd EXCEPT ![c] = 0]
    /\ \E ok \in BOOLEAN :
         IF ok
         THEN /\ result' = [result EXCEPT ![c] = "rows"]
              /\ UNCHANGED <<accessor, errs>>
         ELSE /\ result' = [result EXCEPT ![c] = "InvocationError"]
              /\ errs' = errs \cup {tgt[c]}
              /\ accessor' = [accessor EXCEPT ![tgt[c]] = AfterInvocationError(@)]
    /\ UNCHANGED <<cat, apply, attrs, prepLog, ready, lock, reads, calls>>
    /\ UNCHANGED io

Next ==
    \/ CategoryNew
    \/ ApplyStart
    \/ BindSymbol
    \/ ApplyAttach
    \/ \E c \in Callers, s \in Syms : ReadConst(c, s)
    \/ \E c \in Callers, s \in Syms : Invoke(c, s)
    \/ \E c \in Callers : Resolve(c)
    \/ \E c \in Callers : Enter(c)
    \/ \E c \in Callers : Prepare(c)
    \/ \E c \in Callers : Publish(c)
    \/ \E c \in Callers : Execute(c)

Spec == Init /\ [][Next]_vars

\* ------------------------------------------------------ execution methods
Values == {0, 1}

\* The sequences over S of length at most n.
SeqUpTo(S, n) == UNION {[1..k -> S] : k \in 0..n}

None == [kind |-> "None"]

\* A statement's result: rows of ncols columns, or the count of a DML
\* statement that returns no rows.
ResultSets ==
    {[dml |-> FALSE, ncols |-> n, rows |-> r, count |-> 0] :
        n \in {1}, r \in SeqUpTo([1..1 -> Values], MaxRows)}
    \cup
    {[dml |-> FALSE, ncols |-> n, rows |-> r, count |-> 0] :
        n \in {2}, r \in SeqUpTo([1..2 -> Values], MaxRows)}
    \cup
    {[dml |-> TRUE, ncols |-> 0, rows |-> <<>>, count |-> k] : k \in 0..MaxRows}

\* Mutant of First: the first row is returned whatever the column count.
FirstRowAlways(res) ==
    IF res.dml THEN [kind |-> "count", v |-> res.count]
    ELSE IF res.rows = <<>> THEN None
    ELSE [kind |-> "row", v |-> res.rows[1]]

\* first: the first column of the first row when there is one column, the
\* first row when there are several, the row count for non-RETURNING DML,
\* None when the result returns no rows.
First(res) ==
    IF res.dml THEN [kind |-> "count", v |-> res.count]
    ELSE IF res.rows = <<>> THEN None
    ELSE IF res.ncols = 1 THEN [kind |-> "scalar", v |-> res.rows[1][1]]
    ELSE [kind |-> "row", v |-> res.rows[1]]

\* rows: an iterator producing each row in the result set.
RECURSIVE RowsMethod(_)
RowsMethod(rows) ==
    IF rows = <<>> THEN <<>>
    ELSE <<Head(rows)>> \o RowsMethod(Tail(rows))

\* Mutant of ChunksMethod: a trailing chunk that is not full is not produced.
RECURSIVE ChunksFullOnly(_, _)
ChunksFullOnly(rows, n) ==
    IF Len(rows) < n THEN <<>>
    ELSE <<SubSeq(rows, 1, n)>> \o ChunksFullOnly(SubSeq(rows, n + 1, Len(rows)), n)

\* chunks: an iterator producing sequences of rows of the result, n at a time.
RECURSIVE ChunksMethod(_, _)
ChunksMethod(rows, n) ==
    IF rows = <<>> THEN <<>>
    ELSE IF Len(rows) <= n THEN <<rows>>
    ELSE <<SubSeq(rows, 1, n)>> \o ChunksMethod(SubSeq(rows, n + 1, Len(rows)), n)

\* itertools.chain.from_iterable
RECURSIVE Chain(_)
Chain(chunks) ==
    IF chunks = <<>> THEN <<>> ELSE Head(chunks) \o Chain(Tail(chunks))

InitFirst ==
    /\ InitBound
    /\ arg \in ResultSets
    /\ out = <<>>
    /\ done = FALSE

\* db.lib.get_one(): the first method on the statement's result.
CallFirst ==
    /\ ~done
    /\ out' = First(arg)
    /\ done' = TRUE
    /\ UNCHANGED <<arg, bound>>

NextFirst == CallFirst

SpecFirst == InitFirst /\ [][NextFirst]_vars

InitStream ==
    /\ InitBound
    /\ arg \in {[rows |-> r, size |-> n] :
                  r \in SeqUpTo([1..1 -> {0, 1, 2}], MaxRows), n \in 1..MaxChunk}
    /\ out = <<>>
    /\ done = FALSE

\* db.lib.get_some_rows() and db.lib.get_some_chunks() over one statement.
CallStream ==
    /\ ~done
    /\ out' = [rows |-> RowsMethod(arg.rows),
               chunks |-> ChunksMethod(arg.rows, arg.size)]
    /\ done' = TRUE
    /\ UNCHANGED <<arg, bound>>

NextStream == CallStream

SpecStream == InitStream /\ [][NextStream]_vars

\* ------------------------------------------------------------- the parser
Tokens == {Colon, "get_user_info", "preload", "rows"}

InitParse ==
    /\ InitBound
    /\ arg \in SeqUpTo(Tokens, MaxTokens)
    /\ out = <<>>
    /\ done = FALSE

\* The parser reads one section marker.
CallParse ==
    /\ ~done
    /\ out' = ParseMarker(arg)
    /\ done' = TRUE
    /\ UNCHANGED <<arg, bound>>

NextParse == CallParse

SpecParse == InitParse /\ [][NextParse]_vars

\* ------------------------------------------------------------------ claims
\* The number of preparation requests issued to the connection for symbol s.
PrepCount(s) == Cardinality({k \in 1..Len(prepLog) : prepLog[k] = s})

DefaultSyms == {s \in Syms : SymOf(s).type = "default"}

\* Symbol s has been invoked far enough for its statement to be asked for.
PastFirstUse(s) ==
    \/ \E e \in execLog : e.sym = s
    \/ \E c \in Callers : tgt[c] = s /\ pc[c] \in {"preparing", "exec"}

C2_SameHandle ==
    /\ \A c \in Callers :
         (pc[c] = "exec" /\ tgt[c] \in DefaultSyms) =>
            /\ hnd[c] \in ready
            /\ hnd[c] \in 1..Len(prepLog)
            /\ prepLog[hnd[c]] = tgt[c]
            /\ accessor[tgt[c]].kind = "handle"
            /\ accessor[tgt[c]].h = hnd[c]
    /\ \A e \in execLog :
         e.sym \in DefaultSyms =>
            /\ e.h \in ready
            /\ accessor[e.sym].kind = "handle"
            /\ accessor[e.sym].h = e.h
    /\ \A c, d \in Callers :
         (pc[c] = "exec" /\ pc[d] = "exec" /\ tgt[c] = tgt[d]) => hnd[c] = hnd[d]

\* Two callers raced on the first invocation and both are about to execute.
C2_Witness ==
    \E c, d \in Callers :
        /\ c # d
        /\ pc[c] = "exec" /\ pc[d] = "exec"
        /\ tgt[c] = tgt[d]
        /\ tgt[c] \in DefaultSyms
        /\ ~\E e \in execLog : e.sym = tgt[c]

\* The bind has resolved symbol s: it is past s in the bind order.
BoundPast(s) ==
    \/ apply.pc \in {"attach", "done"}
    \/ /\ apply.pc = "binding"
       /\ \/ s[1] < apply.lib
          \/ s[1] = apply.lib /\ s[2] < apply.sym

\* C3: every const symbol's statement is prepared and executed with zero
\* parameters exactly once, during bind; after that the accessor holds the
\* captured value and no prepared handle, and reads of the value issue no
\* further preparation or execution.
C3_ConstOnce ==
    \A s \in ConstSyms :
        /\ apply.pc = "idle" => (PrepCount(s) = 0 /\ execCount[s] = 0)
        /\ BoundPast(s) =>
             /\ PrepCount(s) = 1
             /\ execCount[s] = 1
             /\ \A e \in execLog : e.sym = s => e.nparams = 0
             /\ accessor[s].kind = "value"
             /\ accessor[s].v = "rows"
             /\ accessor[s].h = 0

\* The value of a const symbol has been read twice after the bind.
C3_Witness ==
    /\ apply.pc = "done"
    /\ reads >= 2
    /\ \E s \in ConstSyms : execCount[s] = 1 /\ accessor[s].kind = "value"

\* Declaration order: Library by Library, symbol by symbol.
DeclaredBefore(s, t) == s[1] < t[1] \/ (s[1] = t[1] /\ s[2] < t[2])

\* C4: when bind completes every preload or proc symbol has a prepared handle,
\* the bind's preparation requests having been issued in declaration order,
\* and every default-type symbol has only a placeholder and no preparation
\* request; a default-type symbol's request is issued on its first invocation.
C4_EagerAndLazy ==
    apply.pc \in {"attach", "done"} =>
        /\ \A s \in Syms :
             SymOf(s).type \in {"preload", "proc"} =>
                /\ accessor[s].kind = "handle"
                /\ accessor[s].h \in ready
                /\ accessor[s].h \in 1..Len(prepLog)
                /\ prepLog[accessor[s].h] = s
        /\ \A j, k \in 1..Len(prepLog) :
             (j < k /\ prepLog[j] \notin DefaultSyms /\ prepLog[k] \notin DefaultSyms)
                => DeclaredBefore(prepLog[j], prepLog[k])
        /\ \A s \in DefaultSyms :
             /\ (apply.pc = "attach" \/ calls = 0) =>
                    (accessor[s] = Placeholder /\ PrepCount(s) = 0)
             /\ PrepCount(s) > 0 => PastFirstUse(s)
             /\ ~PastFirstUse(s) => accessor[s] = Placeholder

\* The bind is complete, one default-type symbol has been prepared by its
\* first invocation and another is still a placeholder.
C4_Witness ==
    /\ apply.pc = "done"
    /\ \E s, t \in DefaultSyms :
         /\ PrepCount(s) = 1 /\ accessor[s].kind = "handle"
         /\ PrepCount(t) = 0 /\ accessor[t] = Placeholder

ChosenName(l) ==
    IF cat.override[l] = NoAlias THEN LibName(l) ELSE cat.override[l]

\* C6: a Category in which two Libraries map to the same attribute name fails
\* with DefinitionError at construction, before any connection operation; with
\* distinct names, applying it attaches exactly one Binding per Library under
\* exactly the chosen names, the keyword name instead of the library's own.
C6_UniqueNames ==
    /\ cat.state # "new" =>
         (cat.state = "DefinitionError" <=>
            \E k, l \in LibIds : k # l /\ ChosenName(k) = ChosenName(l))
    /\ cat.state = "DefinitionError" =>
         /\ apply.pc = "idle"
         /\ prepLog = <<>>
         /\ execLog = {}
         /\ \A n \in AttrNames : attrs[n] = 0
    /\ apply.pc = "done" =>
         \A n \in AttrNames :
            /\ attrs[n] # 0 => ChosenName(attrs[n]) = n
            /\ \A l \in LibIds : ChosenName(l) = n => attrs[n] = l

\* Both Libraries were given the attribute name A: the first by its own name,
\* the second by keyword.
C6_Witness ==
    /\ cat.state = "DefinitionError"
    /\ cat.override[1] = NoAlias
    /\ cat.override[2] = "A"

\* C7: when the execution of an already-resolved symbol fails, the error goes
\* to that caller only and every accessor stays as it was; a re-invocation of
\* a symbol that failed reuses the cached handle, the one already executed
\* against, without a new preparation request.
C7_FailureKeepsCache ==
    [][/\ \A c \in Callers :
            (pc[c] = "exec" /\ pc'[c] = "idle" /\ result'[c] = "InvocationError") =>
                /\ accessor' = accessor
                /\ prepLog' = prepLog
                /\ \A d \in Callers \ {c} : result'[d] = result[d] /\ pc'[d] = pc[d]
       /\ \A c \in Callers :
            (pc[c] = "resolve" /\ pc'[c] # "resolve" /\ tgt[c] \in errs) =>
                /\ pc'[c] = "exec"
                /\ \E e \in execLog : e.sym = tgt[c] /\ e.h = hnd'[c]
                /\ prepLog' = prepLog]_vars

\* A caller whose invocation failed is executing the same symbol again, with
\* one preparation request on record.
C7_Witness ==
    \E c \in Callers :
        /\ result[c] = "InvocationError"
        /\ pc[c] = "exec"
        /\ tgt[c] \in errs
        /\ PrepCount(tgt[c]) = 1

\* C8: the concatenation of the batches produced by chunks equals the
\* sequence produced by rows, element for element and in the same order.
C8_ChunksFlattenToRows ==
    done => Chain(out.chunks) = out.rows

\* The result ends in a chunk that is not full, after at least one full chunk.
C8_Witness ==
    /\ done
    /\ Len(out.chunks) >= 2
    /\ Len(out.chunks[Len(out.chunks)]) < arg.size

\* C9 as stated: None for one column and no rows, the scalar for one column
\* and at least one row, the whole first row as a tuple whenever the result
\* has more than one column, the row count for non-row-returning DML.
C9_FirstAsStated ==
    done =>
        /\ arg.dml => out = [kind |-> "count", v |-> arg.count]
        /\ (~arg.dml /\ arg.ncols = 1 /\ arg.rows = <<>>) => out = None
        /\ (~arg.dml /\ arg.ncols = 1 /\ arg.rows # <<>>) =>
               (out.kind = "scalar" /\ out.v = arg.rows[1][1])
        /\ (~arg.dml /\ arg.ncols > 1) =>
               (out.kind = "row" /\ out.v = arg.rows[1])

\* C9 (amended): first returns None when the result returns no rows, whatever
\* the number of columns; the scalar of the first row's only column for one
\* column and at least one row; the whole first row as a tuple for several
\* columns and at least one row; the row count for non-row-returning DML.
C9_First ==
    done =>
        /\ arg.dml => out = [kind |-> "count", v |-> arg.count]
        /\ (~arg.dml /\ arg.rows = <<>>) => out = None
        /\ (~arg.dml /\ arg.ncols = 1 /\ arg.rows # <<>>) =>
               (out.kind = "scalar" /\ out.v = arg.rows[1][1])
        /\ (~arg.dml /\ arg.ncols > 1 /\ arg.rows # <<>>) =>
               (out.kind = "row" /\ out.v = arg.rows[1])

\* first was called on a result of two columns and no rows.
C9_Witness ==
    /\ done
    /\ ~arg.dml
    /\ arg.ncols = 2
    /\ arg.rows = <<>>
    /\ out = None

Words == Tokens \ {Colon}

\* C10: a marker with zero, one or two colons yields the named symbol with
\* the type and method of its non-empty components and the defaults for the
\* omitted or empty ones; [name], [name:] and [name::] give the same type and
\* method.
C10_MarkerDefaults ==
    done =>
        \A n \in Words, t \in Types \cap Words, m \in Methods \cap Words :
            /\ arg \in {<<n>>, <<n, Colon>>, <<n, Colon, Colon>>} =>
                 out = [name |-> n, type |-> "default", method |-> "default"]
            /\ arg \in {<<n, Colon, t>>, <<n, Colon, t, Colon>>} =>
                 out = [name |-> n, type |-> t, method |-> "default"]
            /\ arg = <<n, Colon, Colon, m>> =>
                 out = [name |-> n, type |-> "default", method |-> m]
            /\ arg = <<n, Colon, t, Colon, m>> =>
                 out = [name |-> n, type |-> t, method |-> m]

\* The marker [get_user_info::] has been parsed.
C10_Witness ==
    /\ done
    /\ arg = <<"get_user_info", Colon, Colon>>
    /\ out.name = "get_user_info"
====
